---- MODULE Spec2Model ----
(***************************************************************************)
(* Model of patatune's objective evaluation (src/patatune/objective.py):   *)
(* the constructor shared by the four variants and the four evaluate       *)
(* methods, with numpy's list-to-array conversion, transposition and       *)
(* broadcasting and asyncio's run/gather scheduling modelled by what they  *)
(* do on the values the code hands them.                                   *)
(*                                                                         *)
(* A user function is given by the shape of what it returns per candidate  *)
(* (a scalar, or a list of sub-values) and by whether it is a coroutine    *)
(* function; its values encode function, candidate and sub-column.  A      *)
(* ragged np.array(solutions) raises, as numpy does since 1.24.  The       *)
(* event loop starts the tasks of a gather in creation order; after that   *)
(* they suspend, return or raise in any order.                             *)
(***************************************************************************)
EXTENDS Integers, Sequences, FiniteSets, TLC

(* ------------------------------ bounds --------------------------------- *)
MaxFuncs == 2
MaxItems == 3
MaxObjectives == 2
MaxBatch == 2

(* ------------------------------ inputs --------------------------------- *)
Variants == {"Objective", "ElementWiseObjective", "BatchObjective", "AsyncElementWiseObjective"}

\* a user function: cols = 0 returns one scalar per candidate, cols = k > 0
\* returns k sub-values per candidate; async = defined with "async def"
ColChoices == {0, 2}

FunctionDescs == [cols : ColChoices, async : BOOLEAN]

RECURSIVE SeqsUpTo(_, _)
SeqsUpTo(S, n) ==
  IF n = 0 THEN {<<>>}
  ELSE LET shorter == SeqsUpTo(S, n - 1)
       IN shorter \cup {Append(s, e) : s \in {q \in shorter : Len(q) = n - 1}, e \in S}

\* objective_functions argument: a list, or a bare callable (list = FALSE)
FunctionArgs ==
  {[list |-> TRUE, val |-> s] : s \in SeqsUpTo(FunctionDescs, MaxFuncs) \ {<<>>}}
    \cup {[list |-> FALSE, val |-> f] : f \in FunctionDescs}

NoneInt == [given |-> FALSE, val |-> 0]
NoneSeq == [given |-> FALSE, val |-> <<>>]

NumObjectivesArgs == {NoneInt} \cup {[given |-> TRUE, val |-> n] : n \in 1..MaxObjectives}

\* directions of every length up to MaxObjectives: alternating from
\* "maximize" (None gives all minimize), and one whose last token ("max")
\* is not a valid one
Alternating(first, second, n) == [i \in 1..n |-> IF i % 2 = 1 THEN first ELSE second]

InvalidLast(n) == [i \in 1..n |-> IF i = n THEN "max" ELSE "minimize"]

DirectionsArgs ==
  {NoneSeq} \cup
    {[given |-> TRUE, val |-> s] :
       s \in UNION {{Alternating("maximize", "minimize", n), InvalidLast(n)} :
                      n \in 0..MaxObjectives}}

\* objective_names of every length up to MaxObjectives
NamesArgs ==
  {NoneSeq} \cup {[given |-> TRUE, val |-> [i \in 1..n |-> <<"objective", i - 1>>]] :
                   n \in 0..MaxObjectives}

\* batch_size argument of BatchObjective: required, so leaving it out is an error
BatchSizeArgs == {NoneInt} \cup {[given |-> TRUE, val |-> b] : b \in 0..MaxBatch}

IsAsyncVariant(v) == v \in {"BatchObjective", "AsyncElementWiseObjective"}

\* the synchronous variants are given synchronous functions (their calling
\* convention); the asynchronous variants are given either kind
InitArgs ==
  {a \in [variant : Variants, objective_functions : FunctionArgs,
          num_objectives : NumObjectivesArgs, directions : DirectionsArgs,
          objective_names : NamesArgs, batch_size : BatchSizeArgs] :
     /\ a.variant # "BatchObjective" => a.batch_size = NoneInt
     /\ ~IsAsyncVariant(a.variant) =>
          IF a.objective_functions.list
          THEN \A i \in 1..Len(a.objective_functions.val) : ~a.objective_functions.val[i].async
          ELSE ~a.objective_functions.val.async}

NoArgs ==
  [variant |-> "none", objective_functions |-> [list |-> TRUE, val |-> <<>>],
   num_objectives |-> NoneInt, directions |-> NoneSeq, objective_names |-> NoneSeq,
   batch_size |-> NoneInt]

\* candidate populations: N distinct candidates, the highest first, so that
\* a candidate's number differs from its position
ItemChoices == {[i \in 1..n |-> n + 1 - i] : n \in 0..MaxItems}

(* --------------------------- user functions ---------------------------- *)
\* the value function number k produces for candidate x in sub-column c
\* (c = 0 for a scalar result); never 0, so that a negation shows
Raw(k, x, c) == 100 * k + 10 * x + c

ItemValue(k, f, x) ==
  IF f.cols = 0 THEN Raw(k, x, 0) ELSE [c \in 1..f.cols |-> Raw(k, x, c)]

\* the list [g(x) for x in xs] as an array: data and np.shape
ListResult(k, f, xs) ==
  [shape |-> IF f.cols = 0 \/ Len(xs) = 0 THEN <<Len(xs)>> ELSE <<Len(xs), f.cols>>,
   data  |-> [i \in 1..Len(xs) |-> ItemValue(k, f, xs[i])]]

(* ------------------------------- numpy --------------------------------- *)
NoMatrix == [shape |-> <<0, 0>>, data |-> <<>>]

\* ndarray.T of a two-dimensional array
Transpose(a) ==
  [shape |-> <<a.shape[2], a.shape[1]>>,
   data  |-> [j \in 1..a.shape[2] |-> [i \in 1..a.shape[1] |-> a.data[i][j]]]]

\* np.array(solutions) for a non-empty list of flat rows: ragged rows raise
Homogeneous(rows) == \A i \in 1..Len(rows) : Len(rows[i]) = Len(rows[1])

NpArray(rows) == [shape |-> <<Len(rows), Len(rows[1])>>, data |-> rows]

\* broadcasting of an (R, C) array against a length-D vector: length of the
\* last axis of the product, -1 when the shapes do not broadcast
BroadcastDim(c, d) ==
  IF c = d THEN c ELSE IF c = 1 THEN d ELSE IF d = 1 THEN c ELSE -1

Multiply(a, d) ==
  LET c == a.shape[2]
      n == BroadcastDim(c, Len(d))
  IN [shape |-> <<a.shape[1], n>>,
      data  |-> [i \in 1..a.shape[1] |->
                  [j \in 1..n |-> a.data[i][IF c = 1 THEN 1 ELSE j]
                                    * d[IF Len(d) = 1 THEN 1 ELSE j]]]]

RECURSIVE Flatten(_)
Flatten(ss) == IF ss = <<>> THEN <<>> ELSE Head(ss) \o Flatten(Tail(ss))

(* ---------------------------- constructor ------------------------------ *)
NoObject ==
  [variant |-> "none", objective_functions |-> <<>>, num_objectives |-> 0,
   directions |-> <<>>, objective_names |-> <<>>, batch_size |-> 0]

WrapFunctions(a) == IF ~a.list THEN <<a.val>> ELSE a.val

NumObjectives(fns, no) == IF ~no.given THEN Len(fns) ELSE no.val

DirectionsRaise(dirs, n) ==
  dirs.given /\ (Len(dirs.val) # n
                 \/ \E i \in 1..Len(dirs.val) : dirs.val[i] \notin {"minimize", "maximize"})

DirectionSigns(dirs, n) ==
  IF ~dirs.given THEN [i \in 1..n |-> 1]
  ELSE [i \in 1..Len(dirs.val) |-> IF dirs.val[i] = "minimize" THEN 1 ELSE -1]

\* mutant: the length of objective_names is not checked
NamesRaiseUnchecked(names, n) == FALSE

NamesRaise(names, n) == names.given /\ Len(names.val) # n

ObjectiveNames(names, n) ==
  IF ~names.given THEN [i \in 1..n |-> <<"objective", i - 1>>] ELSE names.val

\* BatchObjective.__init__ has no default for batch_size
BatchSizeMissing(a) == a.variant = "BatchObjective" /\ ~a.batch_size.given

InitRaises(a) ==
  LET n == NumObjectives(WrapFunctions(a.objective_functions), a.num_objectives)
  IN \/ BatchSizeMissing(a)
     \/ DirectionsRaise(a.directions, n)
     \/ NamesRaise(a.objective_names, n)

InitException(a) == IF BatchSizeMissing(a) THEN "TypeError" ELSE "ValueError"

InitObject(a) ==
  LET fns == WrapFunctions(a.objective_functions)
      n   == NumObjectives(fns, a.num_objectives)
  IN [variant |-> a.variant, objective_functions |-> fns, num_objectives |-> n,
      directions |-> DirectionSigns(a.directions, n),
      objective_names |-> ObjectiveNames(a.objective_names, n),
      batch_size |-> a.batch_size.val]

(* ----------------------------- evaluation ------------------------------ *)
NoExc == [type |-> "none", task |-> <<0, 0>>]

Raise(type, t) == [exc |-> [type |-> type, task |-> t], matrix |-> NoMatrix]

Return(m) == [exc |-> NoExc, matrix |-> m]

\* Objective.evaluate / BatchObjective.evaluate, the loop over result: a
\* result of more than one dimension is appended row by row
RowSolutions(result) ==
  Flatten([k \in 1..Len(result) |->
            IF Len(result[k].shape) > 1 THEN result[k].data ELSE <<result[k].data>>])

\* ElementWiseObjective.evaluate / AsyncElementWiseObjective.evaluate: a
\* result of more than one dimension is transposed and appended row by row
ColumnSolutions(result) ==
  Flatten([k \in 1..Len(result) |->
            IF Len(result[k].shape) > 1 THEN Transpose(result[k]).data
            ELSE <<result[k].data>>])

\* np.array(solutions) * self.directions
RowFinish(result, d) ==
  LET sol == RowSolutions(result)
  IN IF ~Homogeneous(sol) THEN Raise("Inhomogeneous", <<0, 0>>)
     ELSE IF BroadcastDim(Len(sol[1]), Len(d)) = -1 THEN Raise("Broadcast", <<0, 0>>)
     ELSE Return(Multiply(NpArray(sol), d))

\* np.array(solutions).T * self.directions
ColumnFinish(result, d) ==
  LET sol == ColumnSolutions(result)
  IN IF ~Homogeneous(sol) THEN Raise("Inhomogeneous", <<0, 0>>)
     ELSE IF BroadcastDim(Len(sol), Len(d)) = -1 THEN Raise("Broadcast", <<0, 0>>)
     ELSE Return(Multiply(Transpose(NpArray(sol)), d))

\* the per-function raw results of the two synchronous variants: the
\* vectorized function returns [g(x) for x in items], the element-wise
\* variant builds the same list itself
SyncResult(o, items) ==
  [k \in 1..Len(o.objective_functions) |-> ListResult(k, o.objective_functions[k], items)]

ObjectiveEvaluate(o, items) == RowFinish(SyncResult(o, items), o.directions)

ElementWiseEvaluate(o, items) == ColumnFinish(SyncResult(o, items), o.directions)

\* BatchObjective.evaluate, the partition of items into batches
Slice(items, lo, hi) == [i \in 1..(hi - lo) |-> items[lo + i]]

Min(a, b) == IF a < b THEN a ELSE b

\* len(range(0, stop, step))
RangeLen(stop, step) == (stop + step - 1) \div step

\* [items[i:i + b] for i in range(0, stop, b)]
Chunks(items, stop, b) ==
  [j \in 1..RangeLen(stop, b) |-> Slice(items, (j - 1) * b, Min(j * b, Len(items)))]

\* mutant: the remainder is appended also when it is empty
BatchesAlwaysAppend(items, b) ==
  LET n == Len(items)
  IN Append(Chunks(items, n - (n % b), b), Slice(items, n - (n % b), n))

Batches(items, b) ==
  LET n == Len(items)
  IN IF n % b = 0
     THEN Chunks(items, n, b)
     ELSE Append(Chunks(items, n - (n % b), b), Slice(items, n - (n % b), n))

(* ------------------------------- asyncio ------------------------------- *)
NoResult == [shape |-> <<0>>, data |-> <<>>]

\* the coroutines _async_evaluate creates for function k, one per batch or
\* one per candidate, wrapped into tasks by gather
\* mutant: the tasks of all remaining functions are created together
NewTasksAllFunctions(o, items, bts, k) ==
  LET args == IF o.variant = "BatchObjective" THEN bts
              ELSE [i \in 1..Len(items) |-> <<items[i]>>]
  IN [t \in {<<j, i>> : j \in k..Len(o.objective_functions), i \in 1..Len(args)} |->
        [st |-> "pending", arg |-> args[t[2]], res |-> NoResult]]

NewTasks(o, items, bts, k) ==
  LET args == IF o.variant = "BatchObjective" THEN bts
              ELSE [i \in 1..Len(items) |-> <<items[i]>>]
  IN [t \in {<<k, i>> : i \in 1..Len(args)} |->
        [st |-> "pending", arg |-> args[t[2]], res |-> NoResult]]

Group(tk, k) == {t \in DOMAIN tk : t[1] = k}

\* mutant: gather(*tasks, return_exceptions=True) never fails
GatherOutcomeReturnExceptions(tk, k) ==
  IF \A t \in Group(tk, k) : tk[t].st \in {"done", "raised"} THEN "ok" ELSE "wait"

\* what awaiting gather(*tasks) gives once the loop has run the tasks'
\* first steps: the first exception, or the results when all are done
GatherOutcome(tk, k) ==
  IF \E t \in Group(tk, k) : tk[t].st = "pending" THEN "wait"
  ELSE IF \E t \in Group(tk, k) : tk[t].st = "raised" THEN "fail"
  ELSE IF \A t \in Group(tk, k) : tk[t].st = "done" THEN "ok"
  ELSE "wait"

\* gather's result list: the tasks' results in the order of the arguments
TasksOutput(tk, k) ==
  [i \in 1..Cardinality(Group(tk, k)) |-> tk[<<k, i>>].res]

\* np.concatenate(tasks_output) of a non-empty list of batch outputs of
\* function f: the batches' rows, one after the other
Concatenate(outs, f) ==
  LET data == Flatten([i \in 1..Len(outs) |-> outs[i].data])
  IN [shape |-> IF f.cols = 0 \/ Len(data) = 0 THEN <<Len(data)>> ELSE <<Len(data), f.cols>>,
      data  |-> data]

\* np.array(tasks_output) of the per-candidate outputs of function f
ArrayOfOutputs(outs, f) ==
  LET data == Flatten([i \in 1..Len(outs) |-> outs[i].data])
  IN [shape |-> IF f.cols = 0 \/ Len(data) = 0 THEN <<Len(data)>> ELSE <<Len(data), f.cols>>,
      data  |-> data]

\* asyncio.run closing its loop: tasks that have not finished are cancelled
CancelAll(tk) ==
  [t \in DOMAIN tk |->
     IF tk[t].st \in {"pending", "running"} THEN [tk[t] EXCEPT !.st = "cancelled"] ELSE tk[t]]

\* the loop "for obj_func in self.objective_functions" from function k on,
\* up to the next point where evaluate waits for tasks, returns or raises
Iterate(o, items, bts, k, res, tk) ==
  IF k > Len(o.objective_functions)
  THEN LET out == IF o.variant = "BatchObjective" THEN RowFinish(res, o.directions)
                  ELSE ColumnFinish(res, o.directions)
       IN [pc |-> IF out.exc.type = "none" THEN "returned" ELSE "raised",
           fi |-> 0, result |-> <<>>, tasks |-> tk, exc |-> out.exc, output |-> out.matrix]
  ELSE IF ~o.objective_functions[k].async
  THEN [pc |-> "raised", fi |-> 0, result |-> <<>>, tasks |-> tk,
        exc |-> [type |-> "SyncFunction", task |-> <<k, 0>>], output |-> NoMatrix]
  ELSE [pc |-> "gather", fi |-> k, result |-> res,
        tasks |-> NewTasks(o, items, bts, k) @@ tk, exc |-> NoExc, output |-> NoMatrix]

(* ------------------------------- state --------------------------------- *)
VARIABLES
  obj,       \* the constructed object, NoObject before and after a failed construction
  pc,        \* "new", "initRaised", "ready", "gather", "returned", "raised"
  call,      \* the call in progress or last completed, with its arguments
  fi,        \* evaluate: index of the function whose tasks are awaited, else 0
  result,    \* evaluate: the local list result
  batches,   \* BatchObjective.evaluate: the partition computed by the latest call
  tasks,     \* the tasks created by the latest evaluate call, by <<function, index>>
  firstExc,  \* the exception set on gather's future: the first task that raised
  exc,       \* the exception the latest call raised
  output     \* the matrix the latest evaluate call returned

vars == <<obj, pc, call, fi, result, batches, tasks, firstExc, exc, output>>

NoCall == [op |-> "none", args |-> NoArgs, items |-> <<>>]

NoTasks == [t \in {} |-> NoResult]

Init ==
  /\ obj = NoObject
  /\ pc = "new"
  /\ call = NoCall
  /\ fi = 0
  /\ result = <<>>
  /\ batches = <<>>
  /\ tasks = NoTasks
  /\ firstExc = <<0, 0>>
  /\ exc = NoExc
  /\ output = NoMatrix

\* Objective.__init__ / BatchObjective.__init__
Construct ==
  /\ pc = "new"
  /\ \E a \in InitArgs :
       /\ call' = [op |-> "init", args |-> a, items |-> <<>>]
       /\ IF InitRaises(a)
          THEN /\ pc' = "initRaised"
               /\ obj' = NoObject
               /\ exc' = [type |-> InitException(a), task |-> <<0, 0>>]
          ELSE /\ pc' = "ready"
               /\ obj' = InitObject(a)
               /\ exc' = NoExc
  /\ UNCHANGED <<fi, result, batches, tasks, firstExc, output>>

CanCall == pc \in {"ready", "returned", "raised"}

\* Objective.evaluate and ElementWiseObjective.evaluate; userRaises: one of
\* the user functions raises, which propagates
EvaluateSync(items, userRaises) ==
  /\ CanCall
  /\ obj.variant \in {"Objective", "ElementWiseObjective"}
  /\ call' = [op |-> "evaluate", args |-> NoArgs, items |-> items]
  /\ LET out == IF userRaises THEN Raise("UserError", <<1, 0>>)
                ELSE IF obj.variant = "Objective" THEN ObjectiveEvaluate(obj, items)
                ELSE ElementWiseEvaluate(obj, items)
     IN /\ pc' = IF out.exc.type = "none" THEN "returned" ELSE "raised"
        /\ exc' = out.exc
        /\ output' = out.matrix
  /\ fi' = 0
  /\ result' = <<>>
  /\ batches' = <<>>
  /\ tasks' = NoTasks
  /\ firstExc' = <<0, 0>>
  /\ UNCHANGED obj

\* BatchObjective.evaluate and AsyncElementWiseObjective.evaluate up to the
\* first wait
EvaluateAsync(items) ==
  /\ CanCall
  /\ IsAsyncVariant(obj.variant)
  /\ call' = [op |-> "evaluate", args |-> NoArgs, items |-> items]
  /\ firstExc' = <<0, 0>>
  /\ IF obj.variant = "BatchObjective" /\ obj.batch_size = 0
     THEN /\ pc' = "raised"
          /\ exc' = [type |-> "ZeroDivisionError", task |-> <<0, 0>>]
          /\ batches' = <<>>
          /\ fi' = 0
          /\ result' = <<>>
          /\ tasks' = NoTasks
          /\ output' = NoMatrix
     ELSE LET bts == IF obj.variant = "BatchObjective"
                     THEN Batches(items, obj.batch_size) ELSE <<>>
              nxt == Iterate(obj, items, bts, 1, <<>>, NoTasks)
          IN /\ batches' = bts
             /\ pc' = nxt.pc
             /\ fi' = nxt.fi
             /\ result' = nxt.result
             /\ tasks' = nxt.tasks
             /\ exc' = nxt.exc
             /\ output' = nxt.output
  /\ UNCHANGED obj

\* the event loop runs the tasks' first steps in the order of their creation
Created(t, u) == t[1] < u[1] \/ (t[1] = u[1] /\ t[2] < u[2])

\* the task's coroutine obj_func(arg) has suspended, returned or raised
Finished(t, st) ==
  [tasks EXCEPT ![t] =
     [st  |-> st,
      arg |-> @.arg,
      res |-> IF st = "done"
              THEN ListResult(t[1], obj.objective_functions[t[1]], @.arg)
              ELSE NoResult]]

\* first step of a task: the user coroutine suspends, returns or raises
TaskStart(t, st) ==
  /\ pc = "gather"
  /\ t \in DOMAIN tasks
  /\ tasks[t].st = "pending"
  /\ \A u \in DOMAIN tasks : Created(u, t) => tasks[u].st # "pending"
  /\ tasks' = Finished(t, st)
  /\ firstExc' = IF st = "raised" /\ firstExc = <<0, 0>> THEN t ELSE firstExc
  /\ UNCHANGED <<obj, pc, call, fi, result, batches, exc, output>>

\* a suspended task is resumed and returns or raises
TaskResume(t, st) ==
  /\ pc = "gather"
  /\ t \in DOMAIN tasks
  /\ tasks[t].st = "running"
  /\ tasks' = Finished(t, st)
  /\ firstExc' = IF st = "raised" /\ firstExc = <<0, 0>> THEN t ELSE firstExc
  /\ UNCHANGED <<obj, pc, call, fi, result, batches, exc, output>>

\* gather returns: the result of function fi is appended and the loop goes on
GatherDone ==
  /\ pc = "gather"
  /\ GatherOutcome(tasks, fi) = "ok"
  /\ LET outs == TasksOutput(tasks, fi)
         tk   == CancelAll(tasks)
         nxt  == IF obj.variant = "BatchObjective"
                 THEN IF Len(outs) = 0
                      THEN [pc |-> "raised", fi |-> 0, result |-> <<>>, tasks |-> tk,
                            exc |-> [type |-> "Concatenate", task |-> <<fi, 0>>],
                            output |-> NoMatrix]
                      ELSE Iterate(obj, call.items, batches, fi + 1,
                                   Append(result, Concatenate(outs, obj.objective_functions[fi])),
                                   tk)
                 ELSE Iterate(obj, call.items, batches, fi + 1,
                              Append(result, ArrayOfOutputs(outs, obj.objective_functions[fi])),
                              tk)
     IN /\ pc' = nxt.pc
        /\ fi' = nxt.fi
        /\ result' = nxt.result
        /\ tasks' = nxt.tasks
        /\ exc' = nxt.exc
        /\ output' = nxt.output
  /\ UNCHANGED <<obj, call, batches, firstExc>>

\* gather raises the first exception: asyncio.run cancels what is left and
\* evaluate raises, its locals are dropped
GatherFail ==
  /\ pc = "gather"
  /\ GatherOutcome(tasks, fi) = "fail"
  /\ pc' = "raised"
  /\ exc' = [type |-> "UserError", task |-> firstExc]
  /\ tasks' = CancelAll(tasks)
  /\ fi' = 0
  /\ result' = <<>>
  /\ output' = NoMatrix
  /\ UNCHANGED <<obj, call, batches, firstExc>>

TaskIds == (1..MaxFuncs) \X (1..MaxItems)

Next ==
  \/ Construct
  \/ \E items \in ItemChoices, userRaises \in BOOLEAN : EvaluateSync(items, userRaises)
  \/ \E items \in ItemChoices : EvaluateAsync(items)
  \/ \E t \in TaskIds, st \in {"running", "done", "raised"} : TaskStart(t, st)
  \/ \E t \in TaskIds, st \in {"done", "raised"} : TaskResume(t, st)
  \/ GatherDone
  \/ GatherFail

Spec == Init /\ [][Next]_vars

TypeOK ==
  /\ pc \in {"new", "initRaised", "ready", "gather", "returned", "raised"}
  /\ fi \in 0..MaxFuncs

(* ------------------------------- claims -------------------------------- *)
N == Len(call.items)

Abs(v) == IF v < 0 THEN -v ELSE v

\* the candidate a value was computed from
CandidateOf(v) == (Abs(v) % 100) \div 10

\* the objectives in declared order: <<function, sub-column>>
ObjectiveColumns(o) ==
  Flatten([k \in 1..Len(o.objective_functions) |->
            IF o.objective_functions[k].cols = 0 THEN <<<<k, 0>>>>
            ELSE [c \in 1..o.objective_functions[k].cols |-> <<k, c>>]])

HasEntry(m, i, j) == i \in 1..Len(m.data) /\ j \in 1..Len(m.data[i])

\* C1: every evaluate call that returns yields a matrix of N rows and
\* num_objectives columns, row i holding the values of candidate i and
\* column j those of objective j (stated for non-empty populations)
C1_ShapeNByNumObjectives ==
  (pc = "returned" /\ N >= 1) =>
    /\ output.shape = <<N, obj.num_objectives>>
    /\ Len(ObjectiveColumns(obj)) = obj.num_objectives
    /\ \A i \in 1..N, j \in 1..obj.num_objectives :
         /\ HasEntry(output, i, j)
         /\ Abs(output.data[i][j])
              = Raw(ObjectiveColumns(obj)[j][1], call.items[i], ObjectiveColumns(obj)[j][2])

\* C2: the returned value for (candidate i, objective j) is the raw value of
\* the user function, negated exactly when directions[j] is maximize; stated
\* for the calls that return a matrix of the shape (N, num_objectives)
C2_SignPerObjective ==
  (/\ pc = "returned"
   /\ Len(ObjectiveColumns(obj)) = obj.num_objectives
   /\ output.shape = <<N, obj.num_objectives>>) =>
    \A i \in 1..N, j \in 1..obj.num_objectives :
      /\ HasEntry(output, i, j)
      /\ output.data[i][j]
           = Raw(ObjectiveColumns(obj)[j][1], call.items[i], ObjectiveColumns(obj)[j][2])
               * obj.directions[j]

\* C3: Objective.evaluate on the vectorized functions gives what
\* ElementWiseObjective.evaluate gives on the per-candidate functions
\* (stated for non-empty populations)
C3_VectorizedEqualsElementWise ==
  (/\ call.op = "evaluate"
   /\ N >= 1
   /\ obj.variant = "Objective"
   /\ pc \in {"returned", "raised"}
   /\ exc.type # "UserError") =>
    [exc |-> exc, matrix |-> output] = ElementWiseEvaluate(obj, call.items)

\* C4: in the two asynchronous variants the results of candidate i land at
\* row i of the returned matrix, whatever the order the tasks completed in
C4_RowOrderIsCandidateOrder ==
  (pc = "returned" /\ IsAsyncVariant(obj.variant)) =>
    /\ Len(output.data) = N
    /\ \A i \in 1..N : \A j \in 1..Len(output.data[i]) :
         CandidateOf(output.data[i][j]) = call.items[i]

\* C5: when evaluate raises because a declared function is synchronous, no
\* task of any declared function has been started
C5_NoTaskBeforeSyncError ==
  (pc = "raised" /\ exc.type = "SyncFunction") =>
    \A t \in DOMAIN tasks : tasks[t].st = "pending"

\* C6: once a task of a group has raised, evaluate returns no matrix; it
\* raises the exception gather propagates, that of the first task that
\* raised, and keeps none of the results gathered so far
C6_AllOrNothing ==
  (\E t \in DOMAIN tasks : tasks[t].st = "raised") =>
    /\ pc \in {"gather", "raised"}
    /\ output = NoMatrix
    /\ firstExc \in DOMAIN tasks
    /\ tasks[firstExc].st = "raised"
    /\ pc = "raised" => /\ exc = [type |-> "UserError", task |-> firstExc]
                        /\ result = <<>>
                        /\ \A t \in DOMAIN tasks : tasks[t].st \notin {"pending", "running"}

C6_Witness ==
  /\ pc = "raised"
  /\ exc.type = "UserError"
  /\ \E t \in DOMAIN tasks : t[1] = exc.task[1] /\ t # exc.task /\ tasks[t].st = "done"
  /\ \E t \in DOMAIN tasks : t[1] = exc.task[1] /\ tasks[t].st = "cancelled"

\* C7: all tasks in flight belong to one declared function, and a task of a
\* later function exists only when every task of the earlier functions has
\* completed
C7_OneFunctionInFlight ==
  \A t \in DOMAIN tasks, u \in DOMAIN tasks :
    /\ (tasks[t].st \in {"pending", "running"} /\ tasks[u].st \in {"pending", "running"})
         => t[1] = u[1]
    /\ t[1] < u[1] => tasks[t].st = "done"

C7_Witness ==
  /\ pc = "gather"
  /\ fi = 2
  /\ \E t \in DOMAIN tasks, u \in DOMAIN tasks :
       /\ t # u
       /\ t[1] = 2 /\ u[1] = 2
       /\ tasks[t].st = "running" /\ tasks[u].st = "running"

\* C8: the batches of BatchObjective.evaluate: ceil(N/B) chunks, all of
\* length B except the last, which has N mod B (B if that is 0) candidates,
\* none empty, each candidate in exactly one, their concatenation the input
CeilDiv(n, b) == CHOOSE c \in 0..n : c * b >= n /\ (c = 0 \/ (c - 1) * b < n)

C8_BatchPartition ==
  (call.op = "evaluate" /\ obj.variant = "BatchObjective" /\ obj.batch_size >= 1) =>
    LET b == obj.batch_size
        m == Len(batches)
    IN /\ m = CeilDiv(N, b)
       /\ \A j \in 1..(m - 1) : Len(batches[j]) = b
       /\ m > 0 => Len(batches[m]) = (IF N % b = 0 THEN b ELSE N % b)
       /\ \A j \in 1..m : Len(batches[j]) > 0
       /\ \A i \in 1..N :
            Cardinality({j \in 1..m : \E q \in 1..Len(batches[j]) :
                                        batches[j][q] = call.items[i]}) = 1
       /\ Flatten(batches) = call.items

C8_Witness ==
  /\ call.op = "evaluate"
  /\ obj.variant = "BatchObjective"
  /\ obj.batch_size = 2
  /\ N = 3
  /\ batches = <<<<call.items[1], call.items[2]>>, <<call.items[3]>>>>

\* C9: construction raises and yields no object, or yields an object with
\* len(directions) = len(names) = num_objectives; mismatched lengths always
\* raise; evaluate calls keep the equality
ArgNumObjectives(a) ==
  IF a.num_objectives.given THEN a.num_objectives.val
  ELSE IF a.objective_functions.list THEN Len(a.objective_functions.val) ELSE 1

C9_LengthsAgree ==
  /\ pc \in {"new", "initRaised"} <=> obj = NoObject
  /\ obj # NoObject =>
       /\ Len(obj.directions) = obj.num_objectives
       /\ Len(obj.objective_names) = obj.num_objectives
  /\ call.op = "init" =>
       ((\/ call.args.directions.given
            /\ Len(call.args.directions.val) # ArgNumObjectives(call.args)
         \/ call.args.objective_names.given
            /\ Len(call.args.objective_names.val) # ArgNumObjectives(call.args))
          => pc = "initRaised" /\ exc.type \in {"ValueError", "TypeError"})

C9_Witness ==
  /\ call.op = "evaluate"
  /\ pc = "returned"
  /\ obj.num_objectives = 2
  /\ Len(obj.directions) = 2
  /\ Len(obj.objective_names) = 2

\* C10: no BatchObjective with batch_size = 0 is constructed, and evaluate
\* never meets a zero batch_size
C10_NoZeroBatchSize ==
  /\ obj.variant = "BatchObjective" => obj.batch_size # 0
  /\ exc.type # "ZeroDivisionError"

====
